---- MODULE Spec2Model ----
(***************************************************************************)
(* Integrated action models of crocoddyl: the abstract base               *)
(* (IntegratedActionModelAbstractTpl), the explicit Euler integrator       *)
(* (IntegratedActionModelEulerTpl) and the RK2 integrator                  *)
(* (IntegratedActionModelRK2Tpl), with their per-call data records.        *)
(*                                                                         *)
(* Scalars are exact rationals <<n, d>> (d > 0, lowest terms); vectors are *)
(* sequences of scalars and matrices are sequences of rows.                *)
(***************************************************************************)
EXTENDS Integers, Sequences, FiniteSets, TLC

VARIABLES model, data, alloc, last

vars == <<model, data, alloc, last>>

(***************************************************************************)
(* Exact rational arithmetic (the Scalar type).                            *)
(***************************************************************************)
Abs(n) == IF n < 0 THEN -n ELSE n

RECURSIVE Gcd(_, _)
Gcd(a, b) == IF b = 0 THEN a ELSE Gcd(b, a % b)

Q(n, d) ==
  LET s == IF d < 0 THEN -1 ELSE 1
      g == Gcd(Abs(n), Abs(d))
  IN  <<(s * n) \div g, (s * d) \div g>>

Zero == <<0, 1>>
One == <<1, 1>>
Half == <<1, 2>>

RAdd(a, b) ==
  IF a[1] = 0 THEN b
  ELSE IF b[1] = 0 THEN a
  ELSE IF a[2] = b[2] THEN Q(a[1] + b[1], a[2])
  ELSE LET g == Gcd(a[2], b[2])
       IN  Q(a[1] * (b[2] \div g) + b[1] * (a[2] \div g), (a[2] \div g) * b[2])

RMul(a, b) ==
  IF a[1] = 0 \/ b[1] = 0 THEN Zero
  ELSE IF a[2] = 1 /\ b[2] = 1 THEN <<a[1] * b[1], 1>>
  ELSE LET g1 == Gcd(Abs(a[1]), b[2])
           g2 == Gcd(Abs(b[1]), a[2])
       IN  <<(a[1] \div g1) * (b[1] \div g2), (a[2] \div g2) * (b[2] \div g1)>>

RLess(a, b) == a[1] * b[2] < b[1] * a[2]

(***************************************************************************)
(* Vectors and matrices (Eigen VectorXs / MatrixXs).                       *)
(***************************************************************************)
VZero(n) == [i \in 1..n |-> Zero]

VAdd(a, b) == [i \in 1..Len(a) |-> RAdd(a[i], b[i])]

VScale(s, a) == [i \in 1..Len(a) |-> RMul(s, a[i])]

\* a.tail(n)
Tail_(a, n) == SubSeq(a, Len(a) - n + 1, Len(a))

RECURSIVE RSum(_, _)
RSum(f, n) == IF n = 0 THEN Zero ELSE RAdd(f[n], RSum(f, n - 1))

MZero(r, c) == [i \in 1..r |-> [j \in 1..c |-> Zero]]

MIdentity(n) == [i \in 1..n |-> [j \in 1..n |-> IF i = j THEN One ELSE Zero]]

MAdd(A, B) == [i \in 1..Len(A) |-> VAdd(A[i], B[i])]

MScale(s, A) == [i \in 1..Len(A) |-> VScale(s, A[i])]

\* A^T for a matrix with c columns (c is given: a matrix may have no rows)
MTranspose(A, c) == [j \in 1..c |-> [i \in 1..Len(A) |-> A[i][j]]]

\* A * B where B has c columns
MMul(A, B, c) ==
  [i \in 1..Len(A) |-> [j \in 1..c |->
      RSum([k \in 1..Len(B) |-> RMul(A[i][k], B[k][j])], Len(B))]]

\* A^T * v for a matrix with c columns
MTVec(A, v, c) ==
  [j \in 1..c |-> RSum([i \in 1..Len(A) |-> RMul(A[i][j], v[i])], Len(A))]

\* rows 1..n of A replaced by the rows of T (A.topRows(n) = T)
SetTopRows(A, n, T) == [i \in 1..Len(A) |-> IF i <= n THEN T[i] ELSE A[i]]

\* the last n rows of A replaced by the rows of B (A.bottomRows(n) = B)
SetBottomRows(A, n, B) ==
  [i \in 1..Len(A) |-> IF i > Len(A) - n THEN B[i - (Len(A) - n)] ELSE A[i]]

(***************************************************************************)
(* Bounds of the model and the inputs drawn from them.                     *)
(***************************************************************************)
MaxCase == 1

Int2Q(n) == <<n, 1>>

\* time steps given to the constructors and to set_dt
TimeSteps == {Q(-1, 1), Zero, Q(1, 10)}

\* the valid evaluation points: case n is x = [n, 2n], p = [n + 1]
CaseX(n) == <<Int2Q(n), Int2Q(2 * n)>>

CaseP(n) == <<Int2Q(n + 1)>>

\* arguments (x, p) handed to calc / calcDiff: the valid cases, one with a
\* state vector of a wrong length and one with a parameter vector of length 2
Inputs ==
  {[x |-> CaseX(n), p |-> CaseP(n)] : n \in 0..MaxCase}
    \cup {[x |-> <<Zero>>, p |-> CaseP(0)], [x |-> CaseX(0), p |-> <<One, One>>]}

DataIds == {"d1"}

(***************************************************************************)
(* Collaborator: the state manifold (a vector space with nq = nv = 1).     *)
(***************************************************************************)
StateOf(name) == [name |-> name, nx |-> 2, ndx |-> 2, nv |-> 1]

integrate(x, dx) == VAdd(x, dx)

\* Jintegrate(x, dx, Jfirst, Jsecond, firstsecond = first)
JintegrateFirst(state, x, dx) == MIdentity(state.ndx)

\* Jintegrate(x, dx, Jfirst, Jsecond) with the default arguments
JintegrateBoth(state, x, dx) == MIdentity(state.ndx)

\* JintegrateTransport(x, dx, Jin, second)
JintegrateTransport(state, x, dx, Jin) == Jin

(***************************************************************************)
(* Collaborator: differential action models.                               *)
(*   dint   : xout = u,        cost = u^2/2           (nu = 1, nr = 1)     *)
(*   cross  : xout = u - q,    cost = (q + u)^2/2     (nu = 1, nr = 2)     *)
(*   dint2  : xout = u1 + u2,  cost = (u1^2+u2^2)/2   (nu = 2, nr = 2)     *)
(***************************************************************************)
DiffModels == {"dint", "cross", "dint2"}

DiffNu(m) == IF m = "dint2" THEN 2 ELSE 1

DiffNr(m) == IF m = "dint" THEN 1 ELSE 2

DiffState(m) == StateOf(m)

DiffUlb(m) == [i \in 1..DiffNu(m) |-> IF m = "cross" THEN Int2Q(-2) ELSE Int2Q(-1)]

DiffUub(m) == [i \in 1..DiffNu(m) |-> IF m = "cross" THEN Int2Q(2) ELSE Int2Q(1)]

DiffCreateData(m) ==
  [owner |-> m,
   xout |-> VZero(DiffState(m).nv),
   cost |-> Zero,
   r    |-> VZero(DiffNr(m)),
   Fx   |-> MZero(DiffState(m).nv, DiffState(m).ndx),
   Fu   |-> MZero(DiffState(m).nv, DiffNu(m)),
   Lx   |-> VZero(DiffState(m).ndx),
   Lu   |-> VZero(DiffNu(m)),
   Lxx  |-> MZero(DiffState(m).ndx, DiffState(m).ndx),
   Lxu  |-> MZero(DiffState(m).ndx, DiffNu(m)),
   Luu  |-> MZero(DiffNu(m), DiffNu(m))]

DiffXout(m, x, u) ==
  CASE m = "dint"  -> <<u[1]>>
    [] m = "cross" -> <<RAdd(u[1], RMul(Int2Q(-1), x[1]))>>
    [] m = "dint2" -> <<RAdd(u[1], u[2])>>

DiffCost(m, x, u) ==
  CASE m = "dint"  -> RMul(Half, RMul(u[1], u[1]))
    [] m = "cross" -> RMul(Half, RMul(RAdd(x[1], u[1]), RAdd(x[1], u[1])))
    [] m = "dint2" -> RMul(Half, RAdd(RMul(u[1], u[1]), RMul(u[2], u[2])))

DiffResidual(m, x, u) ==
  CASE m = "dint"  -> <<u[1]>>
    [] m = "cross" -> <<x[1], u[1]>>
    [] m = "dint2" -> <<u[1], u[2]>>

\* differential->calc(data, x, u)
DiffCalc(m, dd, x, u) ==
  [dd EXCEPT !.xout = DiffXout(m, x, u),
             !.cost = DiffCost(m, x, u),
             !.r    = DiffResidual(m, x, u)]

\* differential->calcDiff(data, x, u)
DiffCalcDiff(m, dd, x, u) ==
  CASE m = "dint" ->
         [dd EXCEPT !.Fx = <<(<<Zero, Zero>>)>>, !.Fu = <<(<<One>>)>>,
                    !.Lx = <<Zero, Zero>>, !.Lu = <<u[1]>>,
                    !.Lxx = MZero(2, 2), !.Lxu = MZero(2, 1), !.Luu = <<(<<One>>)>>]
    [] m = "cross" ->
         [dd EXCEPT !.Fx = <<(<<Int2Q(-1), Zero>>)>>, !.Fu = <<(<<One>>)>>,
                    !.Lx = <<RAdd(x[1], u[1]), Zero>>, !.Lu = <<RAdd(x[1], u[1])>>,
                    !.Lxx = <<(<<One, Zero>>), (<<Zero, Zero>>)>>,
                    !.Lxu = <<(<<One>>), (<<Zero>>)>>,
                    !.Luu = <<(<<One>>)>>]
    [] m = "dint2" ->
         [dd EXCEPT !.Fx = <<(<<Zero, Zero>>)>>, !.Fu = <<(<<One, One>>)>>,
                    !.Lx = <<Zero, Zero>>, !.Lu = <<u[1], u[2]>>,
                    !.Lxx = MZero(2, 2), !.Lxu = MZero(2, 2), !.Luu = MIdentity(2)]

\* differential->quasiStatic(data, u, x, maxiter, tol): the control with xout = 0
DiffQuasiStatic(m, x) ==
  CASE m = "dint"  -> <<Zero>>
    [] m = "cross" -> <<x[1]>>
    [] m = "dint2" -> <<Zero, Zero>>

\* the record of one call differential->quasiStatic(data[stage], uc, x, maxiter, tol)
DiffQuasiStaticCall(stage, x, maxiter, tol) ==
  [stage |-> stage, x |-> x, maxiter |-> maxiter, tol |-> tol]

\* differential->checkData(data): a type/identity check of the record
DiffCheckData(m, dd) == dd.owner = m

(***************************************************************************)
(* Collaborator: control parametrizations of dimensions (nu, np).          *)
(*   zero : PolyZero, np = nu, value(t, p) = p                             *)
(*   lin  : np = nu, value(t, p) = (2 + t) * p, time-varying               *)
(*   pair : np = 2 nu, p = [p0, p1], value(t, p) = (1 - t) p0 + t p1       *)
(***************************************************************************)
ControlKinds == {"zero", "lin"}

\* parametrizations whose parameter dimension differs from nu
WideControlKinds == {"pair"}

\* ControlAbstractTpl(nu, np)
ControlOf(kind, nu) ==
  [kind |-> kind, nu |-> nu, np |-> IF kind = "pair" THEN 2 * nu ELSE nu]

PolyZero(nu) == ControlOf("zero", nu)

resize(control, nu) == ControlOf(control.kind, nu)

\* the factor of the parametrization at normalized time t
Gain(control, t) == IF control.kind = "zero" THEN One ELSE RAdd(Int2Q(2), t)

\* the inverse of a positive scalar
RInv(a) == <<a[2], a[1]>>

\* 1 - t
Complement(t) == RAdd(One, RMul(Int2Q(-1), t))

\* value(t, p), for p of length np
value(control, t, p) ==
  IF control.kind = "pair"
  THEN [i \in 1..control.nu |->
          RAdd(RMul(Complement(t), p[i]), RMul(t, p[control.nu + i]))]
  ELSE VScale(Gain(control, t), p)

\* value_inv(t, u): parameters of length np whose value at t is u
value_inv(control, t, u) ==
  IF control.kind = "pair" THEN u \o u
  ELSE VScale(RInv(Gain(control, t)), u)

\* value(t, p) stays in [u_lb, u_ub] for every t in [0, 1]; the converted
\* bounds have length np
convert_bounds(control, u_lb, u_ub) ==
  IF control.kind = "pair" THEN [lb |-> u_lb \o u_lb, ub |-> u_ub \o u_ub]
  ELSE [lb |-> VScale(RInv(Gain(control, One)), u_lb),
        ub |-> VScale(RInv(Gain(control, One)), u_ub)]

\* the Jacobian of value with respect to p, of shape nu x np
dValue(control, t, p) ==
  IF control.kind = "pair"
  THEN [i \in 1..control.nu |-> [j \in 1..control.np |->
          IF j = i THEN Complement(t)
          ELSE IF j = control.nu + i THEN t ELSE Zero]]
  ELSE MScale(Gain(control, t), MIdentity(control.nu))

\* out = A * dValue(t, p)
multiplyByDValue(control, t, p, A) == MMul(A, dValue(control, t, p), control.np)

\* out = dValue(t, p)^T * A, for a matrix A with c columns
multiplyDValueTransposeBy(control, t, p, A, c) ==
  MMul(MTranspose(dValue(control, t, p), control.np), A, c)

\* the same product for a vector A
multiplyDValueTransposeByVec(control, t, p, A) ==
  MTVec(dValue(control, t, p), A, control.np)

(***************************************************************************)
(* The integrated action model: construction and reconfiguration.          *)
(***************************************************************************)
Kinds == {"Euler", "RK2"}

\* the time step a constructor falls back to
DefaultDt == Q(1, 1000)

\* a vector of length n handed to convert_bounds as output and filled with v
\* from its first entry on; entries of v beyond n land outside the vector
Buffer(n, v) == [i \in 1..n |-> v[i]]

\* AbstractInit that does not recompute time_step^2 after correcting the step
AbstractInitStaleSquare(m) ==
  LET b  == convert_bounds(m.control, DiffUlb(m.differential), DiffUub(m.differential))
      m1 == [m EXCEPT !.time_step2 = RMul(m.time_step, m.time_step),
                      !.enable_integration = TRUE,
                      !.u_lb = b.lb,
                      !.u_ub = b.ub]
      m2 == IF RLess(m1.time_step, Zero)
            THEN [m1 EXCEPT !.time_step = DefaultDt]
            ELSE m1
  IN  IF m2.time_step = Zero THEN [m2 EXCEPT !.enable_integration = FALSE] ELSE m2

\* IntegratedActionModelAbstractTpl::init
AbstractInit(m) ==
  LET b  == convert_bounds(m.control, DiffUlb(m.differential), DiffUub(m.differential))
      m1 == [m EXCEPT !.time_step2 = RMul(m.time_step, m.time_step),
                      !.enable_integration = TRUE,
                      !.u_lb = Buffer(m.control.nu, b.lb),
                      !.u_ub = Buffer(m.control.nu, b.ub)]
      m2 == IF RLess(m1.time_step, Zero)
            THEN [m1 EXCEPT !.time_step = DefaultDt,
                            !.time_step2 = RMul(DefaultDt, DefaultDt)]
            ELSE m1
  IN  IF m2.time_step = Zero THEN [m2 EXCEPT !.enable_integration = FALSE] ELSE m2

\* IntegratedActionModelAbstractTpl::IntegratedActionModelAbstractTpl
\* (both constructors: without a control the parametrization is PolyZero)
AbstractCtor(kind, diff, control, time_step, with_cost_residual) ==
  AbstractInit(
    [kind |-> kind,
     state |-> DiffState(diff),
     nu |-> control.nu,
     nr |-> DiffNr(diff),
     unone |-> VZero(control.nu),
     u_lb |-> VZero(control.nu),
     u_ub |-> VZero(control.nu),
     differential |-> diff,
     control |-> control,
     time_step |-> time_step,
     time_step2 |-> Zero,
     with_cost_residual |-> with_cost_residual,
     enable_integration |-> FALSE,
     rk2_c |-> <<>>])

\* IntegratedActionModelEulerTpl::init
EulerInit(m) ==
  LET b  == convert_bounds(m.control, DiffUlb(m.differential), DiffUub(m.differential))
      m1 == [m EXCEPT !.time_step2 = RMul(m.time_step, m.time_step),
                      !.enable_integration = TRUE,
                      !.u_lb = Buffer(m.nu, b.lb),
                      !.u_ub = Buffer(m.nu, b.ub)]
      m2 == IF RLess(m1.time_step, Zero)
            THEN [m1 EXCEPT !.time_step = DefaultDt,
                            !.time_step2 = RMul(DefaultDt, DefaultDt)]
            ELSE m1
  IN  IF m2.time_step = Zero THEN [m2 EXCEPT !.enable_integration = FALSE] ELSE m2

\* IntegratedActionModelRK2Tpl::init
RK2Init(m) ==
  LET b  == convert_bounds(m.control, DiffUlb(m.differential), DiffUub(m.differential))
      m1 == [m EXCEPT !.u_lb = Buffer(m.nu, b.lb), !.u_ub = Buffer(m.nu, b.ub)]
      m2 == IF RLess(m1.time_step, Zero)
            THEN [m1 EXCEPT !.time_step = DefaultDt]
            ELSE m1
      m3 == [m2 EXCEPT !.enable_integration = TRUE]
      m4 == IF m3.time_step = Zero THEN [m3 EXCEPT !.enable_integration = FALSE] ELSE m3
  IN  [m4 EXCEPT !.rk2_c = Append(Append(m4.rk2_c, Zero), Half)]

\* IntegratedActionModelEulerTpl / IntegratedActionModelRK2Tpl constructors
Construct(kind, diff, control, time_step, with_cost_residual) ==
  LET base == AbstractCtor(kind, diff, control, time_step, with_cost_residual)
  IN  IF kind = "Euler" THEN EulerInit(base) ELSE RK2Init(base)

\* construction with an explicit parametrization: init hands convert_bounds
\* output vectors of length nu; when np differs the parametrization either
\* fails with a size-mismatch error, and there is no model, or writes np
\* entries from the start of the vectors
ConstructOutcomes(kind, diff, control, time_step, with_cost_residual) ==
  LET m == Construct(kind, diff, control, time_step, with_cost_residual)
  IN  IF control.np = control.nu THEN {[outcome |-> "ok", model |-> m]}
      ELSE {[outcome |-> "ok", model |-> m], [outcome |-> "size_mismatch", model |-> m]}

get_dt(m) == m.time_step

get_differential(m) == m.differential

\* set_dt that corrects a negative dt to the default, as the constructors do
set_dtClamping(m, dt) ==
  LET t == IF RLess(dt, Zero) THEN DefaultDt ELSE dt
  IN  [outcome |-> "ok",
       model |-> [m EXCEPT !.time_step = t, !.time_step2 = RMul(t, t)]]

\* set_dt that stores dt and leaves time_step^2 as it was
set_dtStaleSquare(m, dt) ==
  IF RLess(dt, Zero)
  THEN [outcome |-> "invalid_argument", model |-> m]
  ELSE [outcome |-> "ok", model |-> [m EXCEPT !.time_step = dt]]

\* IntegratedActionModelAbstractTpl::set_dt
set_dt(m, dt) ==
  IF RLess(dt, Zero)
  THEN [outcome |-> "invalid_argument", model |-> m]
  ELSE [outcome |-> "ok",
        model |-> [m EXCEPT !.time_step = dt, !.time_step2 = RMul(dt, dt)]]

\* set_differential that keeps the bounds converted for the previous model
set_differentialStaleBounds(m, diff) ==
  LET m1 == IF m.control.nu # DiffNu(diff)
            THEN LET c == resize(m.control, DiffNu(diff))
                 IN  [m EXCEPT !.control = c, !.nu = c.nu, !.unone = VZero(c.nu)]
            ELSE m
  IN  [m1 EXCEPT !.nr = DiffNr(diff), !.state = DiffState(diff), !.differential = diff]

\* set_differential that never resizes the parametrization
set_differentialNoResize(m, diff) ==
  LET m2 == [m EXCEPT !.nr = DiffNr(diff), !.state = DiffState(diff),
                      !.differential = diff]
      b  == convert_bounds(m2.control, DiffUlb(diff), DiffUub(diff))
  IN  [m2 EXCEPT !.u_lb = b.lb, !.u_ub = b.ub]

\* IntegratedActionModelAbstractTpl::set_differential
set_differential(m, diff) ==
  LET m1 == IF m.control.nu # DiffNu(diff)
            THEN LET c == resize(m.control, DiffNu(diff))
                 IN  [m EXCEPT !.control = c, !.nu = c.nu, !.unone = VZero(c.nu)]
            ELSE m
      m2 == [m1 EXCEPT !.nr = DiffNr(diff), !.state = DiffState(diff),
                       !.differential = diff]
      b  == convert_bounds(m2.control, DiffUlb(diff), DiffUub(diff))
  IN  [m2 EXCEPT !.u_lb = Buffer(m2.nu, b.lb), !.u_ub = Buffer(m2.nu, b.ub)]

(***************************************************************************)
(* Data records.  Stage i of the source (0 or 1) is index i + 1 here.      *)
(***************************************************************************)
\* ActionDataAbstractTpl: the fields every data record has
BaseData(m) ==
  [cost  |-> Zero,
   xnext |-> VZero(m.state.nx),
   r     |-> VZero(m.nr),
   Fx    |-> MZero(m.state.ndx, m.state.ndx),
   Fu    |-> MZero(m.state.ndx, m.nu),
   Lx    |-> VZero(m.state.ndx),
   Lu    |-> VZero(m.nu),
   Lxx   |-> MZero(m.state.ndx, m.state.ndx),
   Lxu   |-> MZero(m.state.ndx, m.nu),
   Luu   |-> MZero(m.nu, m.nu)]

\* the fields of f added to (or replacing those of) the record b
Extend(b, f) ==
  [k \in DOMAIN b \cup DOMAIN f |-> IF k \in DOMAIN f THEN f[k] ELSE b[k]]

\* IntegratedActionDataEulerTpl
EulerData(m) ==
  Extend(BaseData(m),
    [type         |-> "Euler",
     differential |-> <<DiffCreateData(m.differential)>>,
     u_diff       |-> VZero(DiffNu(m.differential)),
     dx           |-> VZero(m.state.ndx),
     da_du        |-> MZero(m.state.nv, m.nu),
     Ludiffu      |-> MZero(DiffNu(m.differential), m.nu)])

\* dki_dy[i].topRightCorner(nv, nv).diagonal().array() = 1
TopRightIdentity(ndx, nv) ==
  [i \in 1..ndx |-> [j \in 1..ndx |->
      IF i <= nv /\ j = ndx - nv + i THEN One ELSE Zero]]

\* IntegratedActionDataRK2Tpl::IntegratedActionDataRK2Tpl
RK2Data(m) ==
  LET ndx     == m.state.ndx
      nx      == m.state.nx
      nv      == m.state.nv
      nu_diff == DiffNu(m.differential)
      nu      == m.nu
      Two(v)  == <<v, v>>
  IN  Extend(BaseData(m),
    [type          |-> "RK2",
     differential  |-> Two(DiffCreateData(m.differential)),
     dx            |-> VZero(ndx),
     u_diff        |-> Two(VZero(nu_diff)),
     integral      |-> Two(Zero),
     ki            |-> Two(VZero(ndx)),
     y             |-> Two(VZero(nx)),
     dx_rk2        |-> Two(VZero(ndx)),
     dki_dx        |-> Two(MZero(ndx, ndx)),
     dki_dudiff    |-> Two(MZero(ndx, nu_diff)),
     dki_du        |-> Two(MZero(ndx, nu)),
     dfi_du        |-> Two(MZero(ndx, nu)),
     dyi_dx        |-> <<MIdentity(ndx), MZero(ndx, ndx)>>,
     dyi_du        |-> Two(MZero(ndx, nu)),
     dki_dy        |-> Two(TopRightIdentity(ndx, nv)),
     dli_dx        |-> Two(VZero(ndx)),
     dli_dudiff    |-> Two(VZero(nu_diff)),
     dli_du        |-> Two(VZero(nu)),
     ddli_ddx      |-> Two(MZero(ndx, ndx)),
     ddli_ddudiff  |-> Two(MZero(nu_diff, nu_diff)),
     ddli_dudiffdu |-> Two(MZero(nu_diff, nu)),
     ddli_ddu      |-> Two(MZero(nu, nu)),
     ddli_dxdudiff |-> Two(MZero(ndx, nu_diff)),
     ddli_dxdu     |-> Two(MZero(ndx, nu)),
     Luu_partialx  |-> Two(MZero(nu, nu)),
     Lxu_i         |-> Two(MZero(ndx, nu)),
     Lxx_partialx  |-> Two(MZero(ndx, ndx)),
     Lxx_partialu  |-> Two(MZero(ndx, nu))])

\* IntegratedActionModelEulerTpl::createData / IntegratedActionModelRK2Tpl::createData
createData(m) == IF m.kind = "Euler" THEN EulerData(m) ELSE RK2Data(m)

(***************************************************************************)
(* Ownership.  A caller holds a data record through a pointer, and a data  *)
(* record holds its stage sub-records through pointers; alloc[k] gives the *)
(* address of record k and the addresses of its stage sub-records.         *)
(***************************************************************************)
\* the address handed out by an allocation made while those of live are in use
Fresh(live) ==
  CHOOSE a \in 1..(Cardinality(live) + 1) :
     a \notin live /\ \A b \in 1..(a - 1) : b \in live

\* the data constructors that create every record's stage sub-records once and
\* hand the same ones to each record
StageAddressesCached(m, live) ==
  IF m.kind = "Euler" THEN <<Fresh({})>> ELSE <<Fresh({}), Fresh({Fresh({})})>>

\* the data constructors' differential.push_back(model->get_differential()->
\* createData()), once for Euler and twice for RK2
StageAddresses(m, live) ==
  LET a0 == Fresh(live)
  IN  IF m.kind = "Euler" THEN <<a0>> ELSE <<a0, Fresh(live \cup {a0})>>

LiveRecords(al) == {al[k].self : k \in DOMAIN al}

LiveStages(al) == UNION {{al[k].stages[i] : i \in DOMAIN al[k].stages} : k \in DOMAIN al}

\* createData's allocate_shared<Data>(..., this): a new record, whose
\* constructor creates the stage sub-records
AllocateData(m, al) ==
  [self   |-> Fresh(LiveRecords(al)),
   stages |-> StageAddresses(m, LiveStages(al))]

\* the caller resets its pointer k: the record it held and the stage
\* sub-records of that record are destroyed
Release(al, k) == [j \in DOMAIN al \ {k} |-> al[j]]

\* the records of the caller's pointers ids, created one after the other
RECURSIVE AllocateAll(_, _, _)
AllocateAll(m, ids, al) ==
  IF ids = {} THEN al
  ELSE LET k == CHOOSE k \in ids : TRUE
       IN  AllocateAll(m, ids \ {k}, Extend(al, k :> AllocateData(m, al)))

\* the records seen through the caller's pointers once the record of pointer k
\* holds d: a write through d, or through d->differential[i], is seen through
\* every pointer to the same address
Store(dat, al, k, d) ==
  [j \in DOMAIN al |->
     IF j = k \/ al[j].self = al[k].self THEN d
     ELSE [dat[j] EXCEPT !.differential =
             [i \in DOMAIN @ |->
                IF \E i2 \in DOMAIN al[k].stages : al[k].stages[i2] = al[j].stages[i]
                THEN d.differential[CHOOSE i2 \in DOMAIN al[k].stages :
                                       al[k].stages[i2] = al[j].stages[i]]
                ELSE @[i]]]]

(***************************************************************************)
(* Euler integrator.  Each operation returns its outcome and the data      *)
(* record it leaves behind.                                                *)
(***************************************************************************)
Ok(d) == [outcome |-> "ok", data |-> d]

InvalidArgument(d) == [outcome |-> "invalid_argument", data |-> d]

\* the parametrization is handed a vector of another length than its np and
\* fails with a size-mismatch error before anything is written
SizeMismatch(d) == [outcome |-> "size_mismatch", data |-> d]

\* EulerCalc with the acceleration term of dx scaled by dt instead of dt^2
EulerCalcLinearDt(m, d, x, u) ==
  IF Len(x) # m.state.nx THEN InvalidArgument(d)
  ELSE IF Len(u) # m.nu THEN InvalidArgument(d)
  ELSE IF Len(u) # m.control.np THEN SizeMismatch(d)
  ELSE
    LET nv     == DiffState(m.differential).nv
        u_diff == value(m.control, Zero, u)
        d0     == DiffCalc(m.differential, d.differential[1], x, u_diff)
        d1     == [d EXCEPT !.u_diff = u_diff, !.differential[1] = d0]
        v      == Tail_(x, nv)
        a      == d0.xout
        d2     == IF m.enable_integration
                  THEN LET dx == VAdd(VScale(m.time_step, v), VScale(m.time_step, a))
                                   \o VScale(m.time_step, a)
                       IN  [d1 EXCEPT !.dx = dx,
                                      !.xnext = integrate(x, dx),
                                      !.cost = RMul(m.time_step, d0.cost)]
                  ELSE [d1 EXCEPT !.dx = VZero(Len(d1.dx)),
                                  !.xnext = x,
                                  !.cost = d0.cost]
    IN  Ok(IF m.with_cost_residual THEN [d2 EXCEPT !.r = d0.r] ELSE d2)

\* IntegratedActionModelEulerTpl::calc
EulerCalc(m, d, x, u) ==
  IF Len(x) # m.state.nx THEN InvalidArgument(d)
  ELSE IF Len(u) # m.nu THEN InvalidArgument(d)
  ELSE IF Len(u) # m.control.np THEN SizeMismatch(d)
  ELSE
    LET nv     == DiffState(m.differential).nv
        u_diff == value(m.control, Zero, u)
        d0     == DiffCalc(m.differential, d.differential[1], x, u_diff)
        d1     == [d EXCEPT !.u_diff = u_diff, !.differential[1] = d0]
        v      == Tail_(x, nv)
        a      == d0.xout
        d2     == IF m.enable_integration
                  THEN LET dx == VAdd(VScale(m.time_step, v), VScale(m.time_step2, a))
                                   \o VScale(m.time_step, a)
                       IN  [d1 EXCEPT !.dx = dx,
                                      !.xnext = integrate(x, dx),
                                      !.cost = RMul(m.time_step, d0.cost)]
                  ELSE [d1 EXCEPT !.dx = VZero(Len(d1.dx)),
                                  !.xnext = x,
                                  !.cost = d0.cost]
    IN  Ok(IF m.with_cost_residual THEN [d2 EXCEPT !.r = d0.r] ELSE d2)

\* AddTopRightDiagonal that leaves the velocity-to-position block as it is
AddTopRightDiagonalOmitted(A, nv, s) == A

\* d->Fx.topRightCorner(nv, nv).diagonal().array() += s
AddTopRightDiagonal(A, nv, s) ==
  [i \in 1..Len(A) |-> [j \in 1..Len(A[i]) |->
      IF i <= nv /\ j = Len(A[i]) - nv + i THEN RAdd(A[i][j], s) ELSE A[i][j]]]

\* EulerCalcDiff that adds dt * J^T * Lu to d->Lu instead of assigning it
EulerCalcDiffAddsLu(m, d, x, u) ==
  IF Len(x) # m.state.nx THEN InvalidArgument(d)
  ELSE IF Len(u) # m.nu THEN InvalidArgument(d)
  ELSE IF Len(u) # m.control.np THEN SizeMismatch(d)
  ELSE
    LET nv     == DiffState(m.differential).nv
        st     == DiffState(m.differential)
        dt     == m.time_step
        dt2    == m.time_step2
        u_diff == value(m.control, Zero, u)
        d0     == DiffCalcDiff(m.differential, d.differential[1], x, u_diff)
        d1     == [d EXCEPT !.u_diff = u_diff, !.differential[1] = d0]
    IN  IF m.enable_integration
        THEN
          LET da_dx == d0.Fx
              Fx1   == AddTopRightDiagonal(
                         SetBottomRows(SetTopRows(d1.Fx, nv, MScale(dt2, da_dx)),
                                       nv, MScale(dt, da_dx)),
                         nv, dt)
              da_du == multiplyByDValue(m.control, Zero, u, d0.Fu)
              Fu1   == SetBottomRows(SetTopRows(d1.Fu, nv, MScale(dt2, da_du)),
                                     nv, MScale(dt, da_du))
              Fx2   == JintegrateTransport(st, x, d1.dx, Fx1)
              Fx3   == MAdd(Fx2, JintegrateFirst(st, x, d1.dx))
              Fu2   == JintegrateTransport(st, x, d1.dx, Fu1)
              Ludiffu == multiplyByDValue(m.control, Zero, u, d0.Luu)
          IN  Ok([d1 EXCEPT
                !.da_du = da_du,
                !.Fx  = Fx3,
                !.Fu  = Fu2,
                !.Lx  = VScale(dt, d0.Lx),
                !.Lu  = VAdd(d1.Lu, VScale(dt, multiplyDValueTransposeByVec(m.control, Zero, u,
                                                                d0.Lu))),
                !.Lxx = MScale(dt, d0.Lxx),
                !.Lxu = MScale(dt, multiplyByDValue(m.control, Zero, u, d0.Lxu)),
                !.Ludiffu = Ludiffu,
                !.Luu = MScale(dt, multiplyDValueTransposeBy(m.control, Zero, u,
                                                             Ludiffu, m.control.np))])
        ELSE
          Ok([d1 EXCEPT
                !.Fx  = JintegrateBoth(st, x, d1.dx),
                !.Fu  = MZero(Len(d1.Fu), m.nu),
                !.Lx  = d0.Lx,
                !.Lu  = d0.Lu,
                !.Lxx = d0.Lxx,
                !.Lxu = d0.Lxu,
                !.Luu = d0.Luu])

\* IntegratedActionModelEulerTpl::calcDiff
EulerCalcDiff(m, d, x, u) ==
  IF Len(x) # m.state.nx THEN InvalidArgument(d)
  ELSE IF Len(u) # m.nu THEN InvalidArgument(d)
  ELSE IF Len(u) # m.control.np THEN SizeMismatch(d)
  ELSE
    LET nv     == DiffState(m.differential).nv
        st     == DiffState(m.differential)
        dt     == m.time_step
        dt2    == m.time_step2
        u_diff == value(m.control, Zero, u)
        d0     == DiffCalcDiff(m.differential, d.differential[1], x, u_diff)
        d1     == [d EXCEPT !.u_diff = u_diff, !.differential[1] = d0]
    IN  IF m.enable_integration
        THEN
          LET da_dx == d0.Fx
              Fx1   == AddTopRightDiagonal(
                         SetBottomRows(SetTopRows(d1.Fx, nv, MScale(dt2, da_dx)),
                                       nv, MScale(dt, da_dx)),
                         nv, dt)
              da_du == multiplyByDValue(m.control, Zero, u, d0.Fu)
              Fu1   == SetBottomRows(SetTopRows(d1.Fu, nv, MScale(dt2, da_du)),
                                     nv, MScale(dt, da_du))
              Fx2   == JintegrateTransport(st, x, d1.dx, Fx1)
              Fx3   == MAdd(Fx2, JintegrateFirst(st, x, d1.dx))
              Fu2   == JintegrateTransport(st, x, d1.dx, Fu1)
              Ludiffu == multiplyByDValue(m.control, Zero, u, d0.Luu)
          IN  Ok([d1 EXCEPT
                !.da_du = da_du,
                !.Fx  = Fx3,
                !.Fu  = Fu2,
                !.Lx  = VScale(dt, d0.Lx),
                !.Lu  = VScale(dt, multiplyDValueTransposeByVec(m.control, Zero, u, d0.Lu)),
                !.Lxx = MScale(dt, d0.Lxx),
                !.Lxu = MScale(dt, multiplyByDValue(m.control, Zero, u, d0.Lxu)),
                !.Ludiffu = Ludiffu,
                !.Luu = MScale(dt, multiplyDValueTransposeBy(m.control, Zero, u,
                                                             Ludiffu, m.control.np))])
        ELSE
          Ok([d1 EXCEPT
                !.Fx  = JintegrateBoth(st, x, d1.dx),
                !.Fu  = MZero(Len(d1.Fu), m.nu),
                !.Lx  = d0.Lx,
                !.Lu  = d0.Lu,
                !.Lxx = d0.Lxx,
                !.Lxu = d0.Lxu,
                !.Luu = d0.Luu])

\* a quasiStatic call rejected by its validation: nothing called, nothing written
QuasiStaticInvalid(d, u) ==
  [outcome |-> "invalid_argument", u |-> u, data |-> d, calls |-> <<>>]

\* quasiStatic whose output u has another length than the np of the
\* parametrization: value_inv fails after the differential model was called
QuasiStaticMismatch(d, u, calls) ==
  [outcome |-> "size_mismatch", u |-> u, data |-> d, calls |-> calls]

\* EulerQuasiStatic that inverts the parametrization at t = 1/2 instead of t = 0
EulerQuasiStaticMidpoint(m, d, u, x, maxiter, tol) ==
  IF Len(u) # m.nu THEN QuasiStaticInvalid(d, u)
  ELSE IF Len(x) # m.state.nx THEN QuasiStaticInvalid(d, u)
  ELSE
    LET uc == DiffQuasiStatic(m.differential, x)
    IN  [outcome |-> "ok", u |-> value_inv(m.control, Half, uc), data |-> d,
         calls |-> <<DiffQuasiStaticCall(1, x, maxiter, tol)>>]

\* IntegratedActionModelEulerTpl::quasiStatic: the outcome, the vector u written
\* and the calls made to the differential model
EulerQuasiStatic(m, d, u, x, maxiter, tol) ==
  IF Len(u) # m.nu THEN QuasiStaticInvalid(d, u)
  ELSE IF Len(x) # m.state.nx THEN QuasiStaticInvalid(d, u)
  ELSE
    LET uc == DiffQuasiStatic(m.differential, x)
        calls == <<DiffQuasiStaticCall(1, x, maxiter, tol)>>
    IN  IF Len(u) # m.control.np THEN QuasiStaticMismatch(d, u, calls)
        ELSE [outcome |-> "ok", u |-> value_inv(m.control, Zero, uc), data |-> d,
              calls |-> calls]

(***************************************************************************)
(* RK2 integrator.                                                         *)
(***************************************************************************)
\* RK2Calc with the cost taken from stage 0 instead of stage 1
RK2CalcStage0Cost(m, d, x, p) ==
  IF Len(x) # m.state.nx THEN InvalidArgument(d)
  ELSE IF Len(p) # m.nu THEN InvalidArgument(d)
  ELSE IF Len(p) # m.control.np THEN SizeMismatch(d)
  ELSE
    LET nv  == DiffState(m.differential).nv
        u0  == value(m.control, m.rk2_c[1], p)
        d0  == DiffCalc(m.differential, d.differential[1], x, u0)
        s0  == [d EXCEPT !.u_diff[1] = u0, !.differential[1] = d0]
        s1  == IF m.enable_integration
               THEN
                 LET k0   == Tail_(x, nv) \o d0.xout
                     dx1  == VScale(RMul(Half, m.time_step), k0)
                     y1   == integrate(x, dx1)
                     u1   == value(m.control, Half, p)
                     d1   == DiffCalc(m.differential, s0.differential[2], y1, u1)
                     k1   == Tail_(y1, nv) \o d1.xout
                     dx   == VScale(m.time_step, k1)
                 IN  [s0 EXCEPT !.y[1] = x,
                                !.ki[1] = k0,
                                !.integral[1] = d0.cost,
                                !.dx_rk2[2] = dx1,
                                !.y[2] = y1,
                                !.u_diff[2] = u1,
                                !.differential[2] = d1,
                                !.ki[2] = k1,
                                !.integral[2] = d1.cost,
                                !.dx = dx,
                                !.xnext = integrate(x, dx),
                                !.cost = RMul(d0.cost, m.time_step)]
               ELSE [s0 EXCEPT !.dx = VZero(Len(s0.dx)),
                               !.xnext = x,
                               !.cost = d0.cost]
    IN  Ok(IF m.with_cost_residual THEN [s1 EXCEPT !.r = d0.r] ELSE s1)

\* RK2Calc that copies the residual of the last stage evaluated
RK2CalcLastResidual(m, d, x, p) ==
  IF Len(x) # m.state.nx THEN InvalidArgument(d)
  ELSE IF Len(p) # m.nu THEN InvalidArgument(d)
  ELSE IF Len(p) # m.control.np THEN SizeMismatch(d)
  ELSE
    LET nv  == DiffState(m.differential).nv
        u0  == value(m.control, m.rk2_c[1], p)
        d0  == DiffCalc(m.differential, d.differential[1], x, u0)
        s0  == [d EXCEPT !.u_diff[1] = u0, !.differential[1] = d0]
        s1  == IF m.enable_integration
               THEN
                 LET k0   == Tail_(x, nv) \o d0.xout
                     dx1  == VScale(RMul(Half, m.time_step), k0)
                     y1   == integrate(x, dx1)
                     u1   == value(m.control, Half, p)
                     d1   == DiffCalc(m.differential, s0.differential[2], y1, u1)
                     k1   == Tail_(y1, nv) \o d1.xout
                     dx   == VScale(m.time_step, k1)
                 IN  [s0 EXCEPT !.y[1] = x,
                                !.ki[1] = k0,
                                !.integral[1] = d0.cost,
                                !.dx_rk2[2] = dx1,
                                !.y[2] = y1,
                                !.u_diff[2] = u1,
                                !.differential[2] = d1,
                                !.ki[2] = k1,
                                !.integral[2] = d1.cost,
                                !.dx = dx,
                                !.xnext = integrate(x, dx),
                                !.cost = RMul(d1.cost, m.time_step)]
               ELSE [s0 EXCEPT !.dx = VZero(Len(s0.dx)),
                               !.xnext = x,
                               !.cost = d0.cost]
    IN  Ok(IF m.with_cost_residual
           THEN [s1 EXCEPT !.r = IF m.enable_integration THEN s1.differential[2].r
                                 ELSE d0.r]
           ELSE s1)

\* IntegratedActionModelRK2Tpl::calc
RK2Calc(m, d, x, p) ==
  IF Len(x) # m.state.nx THEN InvalidArgument(d)
  ELSE IF Len(p) # m.nu THEN InvalidArgument(d)
  ELSE IF Len(p) # m.control.np THEN SizeMismatch(d)
  ELSE
    LET nv  == DiffState(m.differential).nv
        u0  == value(m.control, m.rk2_c[1], p)
        d0  == DiffCalc(m.differential, d.differential[1], x, u0)
        s0  == [d EXCEPT !.u_diff[1] = u0, !.differential[1] = d0]
        s1  == IF m.enable_integration
               THEN
                 LET k0   == Tail_(x, nv) \o d0.xout
                     dx1  == VScale(RMul(Half, m.time_step), k0)
                     y1   == integrate(x, dx1)
                     u1   == value(m.control, Half, p)
                     d1   == DiffCalc(m.differential, s0.differential[2], y1, u1)
                     k1   == Tail_(y1, nv) \o d1.xout
                     dx   == VScale(m.time_step, k1)
                 IN  [s0 EXCEPT !.y[1] = x,
                                !.ki[1] = k0,
                                !.integral[1] = d0.cost,
                                !.dx_rk2[2] = dx1,
                                !.y[2] = y1,
                                !.u_diff[2] = u1,
                                !.differential[2] = d1,
                                !.ki[2] = k1,
                                !.integral[2] = d1.cost,
                                !.dx = dx,
                                !.xnext = integrate(x, dx),
                                !.cost = RMul(d1.cost, m.time_step)]
               ELSE [s0 EXCEPT !.dx = VZero(Len(s0.dx)),
                               !.xnext = x,
                               !.cost = d0.cost]
    IN  Ok(IF m.with_cost_residual THEN [s1 EXCEPT !.r = d0.r] ELSE s1)

\* IntegratedActionModelRK2Tpl::calcDiff, stage 0: the partials of k0 and of
\* the stage-0 cost, pulled through the parametrization at t = 0
RK2DiffStage0(m, s, p) ==
  LET nv  == DiffState(m.differential).nv
      c   == m.control
      d0  == s.differential[1]
      dki_dy0        == SetBottomRows(s.dki_dy[1], nv, d0.Fx)
      dki_dudiff0    == SetBottomRows(s.dki_dudiff[1], nv, d0.Fu)
      ddli_dudiffdu0 == multiplyByDValue(c, Zero, p, d0.Luu)
  IN  [s EXCEPT
         !.dki_dy[1]        = dki_dy0,
         !.dki_dx[1]        = dki_dy0,
         !.dki_dudiff[1]    = dki_dudiff0,
         !.dki_du[1]        = multiplyByDValue(c, Zero, p, dki_dudiff0),
         !.dli_dx[1]        = d0.Lx,
         !.dli_du[1]        = multiplyDValueTransposeByVec(c, Zero, p, d0.Lu),
         !.ddli_ddx[1]      = d0.Lxx,
         !.ddli_ddudiff[1]  = d0.Luu,
         !.ddli_dudiffdu[1] = ddli_dudiffdu0,
         !.ddli_ddu[1]      = multiplyDValueTransposeBy(c, Zero, p, ddli_dudiffdu0, c.np),
         !.ddli_dxdudiff[1] = d0.Lxu,
         !.ddli_dxdu[1]     = multiplyByDValue(c, Zero, p, d0.Lxu)]

\* stage 1: the differential model's derivatives at the y[1] the record holds
RK2DiffStage1Eval(m, s, p) ==
  LET nv == DiffState(m.differential).nv
      u1 == value(m.control, m.rk2_c[2], p)
      d1 == DiffCalcDiff(m.differential, s.differential[2], s.y[2], u1)
  IN  [s EXCEPT !.u_diff[2] = u1,
                !.differential[2] = d1,
                !.dki_dy[2] = SetBottomRows(s.dki_dy[2], nv, d1.Fx)]

\* stage 1: dy1/dx and dy1/dp, transported at (x, dx_rk2[1])
RK2DiffStage1State(m, s, x, p) ==
  LET st == DiffState(m.differential)
      h  == RMul(m.rk2_c[2], m.time_step)
  IN  [s EXCEPT
         !.dyi_dx[2] = MAdd(JintegrateTransport(st, x, s.dx_rk2[2], MScale(h, s.dki_dx[1])),
                            JintegrateFirst(st, x, s.dx_rk2[2])),
         !.dyi_du[2] = JintegrateTransport(st, x, s.dx_rk2[2], MScale(h, s.dki_du[1]))]

\* stage 1: the partials of k1 by the chain rule through y[1]
RK2DiffStage1Dynamics(m, s, p) ==
  LET nv  == DiffState(m.differential).nv
      ndx == DiffState(m.differential).ndx
      c   == m.control
      dki_dudiff1 == SetBottomRows(s.dki_dudiff[2], nv, s.differential[2].Fu)
      dfi_du1     == multiplyByDValue(c, m.rk2_c[2], p, dki_dudiff1)
  IN  [s EXCEPT
         !.dki_dx[2]     = MMul(s.dki_dy[2], s.dyi_dx[2], ndx),
         !.dki_dudiff[2] = dki_dudiff1,
         !.dfi_du[2]     = dfi_du1,
         !.dki_du[2]     = MAdd(MMul(s.dki_dy[2], s.dyi_du[2], c.np), dfi_du1)]

\* stage 1: the partials of the stage-1 cost by the chain rule through y[1]
RK2DiffStage1Cost(m, s, p) ==
  LET ndx == DiffState(m.differential).ndx
      c   == m.control
      nu  == c.np
      ti  == m.rk2_c[2]
      d1  == s.differential[2]
      dyi_dx1 == s.dyi_dx[2]
      dyi_du1 == s.dyi_du[2]
      Lxx_partialx1  == MMul(d1.Lxx, dyi_dx1, ndx)
      Lxu_i1         == multiplyByDValue(c, ti, p, d1.Lxu)
      Luu_partialx1  == MMul(MTranspose(Lxu_i1, nu), dyi_du1, nu)
      Lxx_partialu1  == MMul(d1.Lxx, dyi_du1, nu)
      ddli_dudiffdu1 == multiplyByDValue(c, ti, p, d1.Luu)
      ddli_dxdudiff1 == MMul(MTranspose(dyi_dx1, ndx), d1.Lxu, DiffNu(m.differential))
  IN  [s EXCEPT
         !.dli_dx[2]        = MTVec(dyi_dx1, d1.Lx, ndx),
         !.dli_du[2]        = VAdd(multiplyDValueTransposeByVec(c, ti, p, d1.Lu),
                                   MTVec(dyi_du1, d1.Lx, nu)),
         !.Lxx_partialx[2]  = Lxx_partialx1,
         !.ddli_ddx[2]      = MMul(MTranspose(dyi_dx1, ndx), Lxx_partialx1, ndx),
         !.Lxu_i[2]         = Lxu_i1,
         !.Luu_partialx[2]  = Luu_partialx1,
         !.Lxx_partialu[2]  = Lxx_partialu1,
         !.ddli_dudiffdu[2] = ddli_dudiffdu1,
         !.ddli_ddu[2]      =
            MAdd(multiplyDValueTransposeBy(c, ti, p, ddli_dudiffdu1, nu),
                 MAdd(MAdd(MTranspose(Luu_partialx1, nu), Luu_partialx1),
                      MMul(MTranspose(dyi_du1, nu), Lxx_partialu1, nu))),
         !.ddli_dxdudiff[2] = ddli_dxdudiff1,
         !.ddli_dxdu[2]     = MAdd(multiplyByDValue(c, ti, p, ddli_dxdudiff1),
                                   MMul(MTranspose(dyi_dx1, ndx), Lxx_partialu1, nu))]

\* RK2DiffOutputs that takes the gradients of the cost from stage 0
RK2DiffOutputsStage0Cost(m, s, x) ==
  LET st == DiffState(m.differential)
      dt == m.time_step
  IN  [s EXCEPT
         !.Fx  = MAdd(JintegrateTransport(st, x, s.dx, MScale(dt, s.dki_dx[2])),
                      JintegrateFirst(st, x, s.dx)),
         !.Fu  = JintegrateTransport(st, x, s.dx, MScale(dt, s.dki_du[2])),
         !.Lx  = VScale(dt, s.dli_dx[1]),
         !.Lu  = VScale(dt, s.dli_du[1]),
         !.Lxx = MScale(dt, s.ddli_ddx[2]),
         !.Luu = MScale(dt, s.ddli_ddu[2]),
         !.Lxu = MScale(dt, s.ddli_dxdu[2])]

\* the outputs: dt times the stage-1 quantities, Fx and Fu transported at (x, dx)
RK2DiffOutputs(m, s, x) ==
  LET st == DiffState(m.differential)
      dt == m.time_step
  IN  [s EXCEPT
         !.Fx  = MAdd(JintegrateTransport(st, x, s.dx, MScale(dt, s.dki_dx[2])),
                      JintegrateFirst(st, x, s.dx)),
         !.Fu  = JintegrateTransport(st, x, s.dx, MScale(dt, s.dki_du[2])),
         !.Lx  = VScale(dt, s.dli_dx[2]),
         !.Lu  = VScale(dt, s.dli_du[2]),
         !.Lxx = MScale(dt, s.ddli_ddx[2]),
         !.Luu = MScale(dt, s.ddli_ddu[2]),
         !.Lxu = MScale(dt, s.ddli_dxdu[2])]

\* the branch of calcDiff taken when integration is disabled
RK2DiffDisabled(m, s, x) ==
  LET d0 == s.differential[1]
  IN  [s EXCEPT
         !.Fx  = JintegrateBoth(DiffState(m.differential), x, s.dx),
         !.Fu  = MZero(Len(s.Fu), m.nu),
         !.Lx  = d0.Lx,
         !.Lu  = d0.Lu,
         !.Lxx = d0.Lxx,
         !.Lxu = d0.Lxu,
         !.Luu = d0.Luu]

\* IntegratedActionModelRK2Tpl::calcDiff
RK2CalcDiff(m, d, x, p) ==
  IF Len(x) # m.state.nx THEN InvalidArgument(d)
  ELSE IF Len(p) # m.nu THEN InvalidArgument(d)
  ELSE IF Len(p) # m.control.np THEN SizeMismatch(d)
  ELSE
    LET u0 == value(m.control, Zero, p)
        s0 == [d EXCEPT !.u_diff[1] = u0,
                        !.differential[1] =
                           DiffCalcDiff(m.differential, d.differential[1], x, u0)]
    IN  IF m.enable_integration
        THEN Ok(RK2DiffOutputs(m,
                  RK2DiffStage1Cost(m,
                    RK2DiffStage1Dynamics(m,
                      RK2DiffStage1State(m,
                        RK2DiffStage1Eval(m, RK2DiffStage0(m, s0, p), p), x, p), p), p), x))
        ELSE Ok(RK2DiffDisabled(m, s0, x))

\* RK2QuasiStatic without the check of the length of u
RK2QuasiStaticUnchecked(m, d, u, x, maxiter, tol) ==
  IF Len(x) # m.state.nx THEN QuasiStaticInvalid(d, u)
  ELSE
    LET uc == DiffQuasiStatic(m.differential, x)
    IN  [outcome |-> "ok", u |-> value_inv(m.control, Zero, uc), data |-> d,
         calls |-> <<DiffQuasiStaticCall(1, x, maxiter, tol)>>]

\* IntegratedActionModelRK2Tpl::quasiStatic: the outcome, the vector u written
\* and the calls made to the differential model
RK2QuasiStatic(m, d, u, x, maxiter, tol) ==
  IF Len(u) # m.nu THEN QuasiStaticInvalid(d, u)
  ELSE IF Len(x) # m.state.nx THEN QuasiStaticInvalid(d, u)
  ELSE
    LET uc == DiffQuasiStatic(m.differential, x)
        calls == <<DiffQuasiStaticCall(1, x, maxiter, tol)>>
    IN  IF Len(u) # m.control.np THEN QuasiStaticMismatch(d, u, calls)
        ELSE [outcome |-> "ok", u |-> value_inv(m.control, Zero, uc), data |-> d,
              calls |-> calls]

(***************************************************************************)
(* Dispatch on the integrator and checkData.                               *)
(***************************************************************************)
calc(m, d, x, p) == IF m.kind = "Euler" THEN EulerCalc(m, d, x, p) ELSE RK2Calc(m, d, x, p)

calcDiff(m, d, x, p) ==
  IF m.kind = "Euler" THEN EulerCalcDiff(m, d, x, p) ELSE RK2CalcDiff(m, d, x, p)

quasiStatic(m, d, u, x, maxiter, tol) ==
  IF m.kind = "Euler" THEN EulerQuasiStatic(m, d, u, x, maxiter, tol)
  ELSE RK2QuasiStatic(m, d, u, x, maxiter, tol)

\* the absent record (a null pointer)
NullData == [type |-> "null"]

\* boost::dynamic_pointer_cast<Data>(data): the record itself, or null when it
\* is not of the integrator's own data type
DynamicCast(kind, arg) == IF arg.type = kind THEN arg ELSE NullData

\* what dereferencing a null pointer can do
NullDereference == {"crash", "true", "false"}

BoolOutcome(b) == IF b THEN "true" ELSE "false"

\* IntegratedActionModelEulerTpl::checkData: the set of possible outcomes
EulerCheckData(m, arg) ==
  LET d == DynamicCast("Euler", arg)
  IN  IF arg # NullData
      THEN IF d = NullData THEN NullDereference
           ELSE {BoolOutcome(DiffCheckData(m.differential, d.differential[1]))}
      ELSE {"false"}

\* IntegratedActionModelRK2Tpl::checkData: the set of possible outcomes
RK2CheckData(m, arg) ==
  LET d == DynamicCast("RK2", arg)
  IN  IF arg # NullData
      THEN IF d = NullData THEN NullDereference
           ELSE {BoolOutcome(DiffCheckData(m.differential, d.differential[1])
                             /\ DiffCheckData(m.differential, d.differential[2]))}
      ELSE {"false"}

checkData(m, arg) == IF m.kind = "Euler" THEN EulerCheckData(m, arg) ELSE RK2CheckData(m, arg)

(***************************************************************************)
(* The state machine: one integrated model, the data records of its        *)
(* caller, and the last call made with its arguments and outcome.          *)
(***************************************************************************)
\* the record of a call; fields a call does not have keep these defaults
NoCall ==
  [op |-> "construct", outcome |-> "ok", id |-> "d1", x |-> <<>>, p |-> <<>>,
   dt |-> Zero, diff |-> "dint", arg |-> <<"none", "dint">>, u |-> <<>>,
   maxiter |-> 0, tol |-> Zero, calls |-> <<>>]

\* data records a caller may hand to checkData: none, a record of either
\* integrator for any differential model, and an RK2 record whose second
\* stage sub-record comes from another differential model
CheckArgs ==
  [k \in {<<"null", "dint">>} \cup {<<kind, diff>> : kind \in Kinds, diff \in DiffModels}
         \cup {<<"mixed", diff>> : diff \in DiffModels} |->
     IF k[1] = "null" THEN NullData
     ELSE LET fresh == createData(Construct(IF k[1] = "mixed" THEN "RK2" ELSE k[1],
                                            k[2], PolyZero(DiffNu(k[2])), Zero, TRUE))
          IN  IF k[1] = "mixed"
              THEN [fresh EXCEPT !.differential[2] =
                      DiffCreateData(IF k[2] = "dint" THEN "cross" ELSE "dint")]
              ELSE fresh]

\* (maxiter, tol) handed to quasiStatic: the defaults and a coarse setting
SolverArgs == {[maxiter |-> 100, tol |-> Q(1, 1000000000)], [maxiter |-> 1, tol |-> Q(1, 10)]}

\* output vectors handed to quasiStatic
Us == {<<Zero>>, <<Zero, Zero>>}

\* construction with any arguments
Init ==
  \E kind \in Kinds, diff \in DiffModels, ck \in ControlKinds,
     time_step \in TimeSteps, wcr \in BOOLEAN :
     /\ model = Construct(kind, diff, ControlOf(ck, DiffNu(diff)), time_step, wcr)
     /\ data = [k \in DataIds |-> createData(model)]
     /\ alloc = AllocateAll(model, DataIds, <<>>)
     /\ last = [NoCall EXCEPT !.dt = time_step, !.diff = diff]

\* differential models used where the model is evaluated
EvalDiffs == {"dint", "cross"}

\* time steps the evaluated models are constructed with
EvalTimeSteps == {Zero, Q(1, 10)}

\* construction of the models that are evaluated
InitEval ==
  \E kind \in Kinds, diff \in EvalDiffs, ck \in ControlKinds,
     time_step \in EvalTimeSteps, wcr \in {TRUE} :
     /\ model = Construct(kind, diff, ControlOf(ck, DiffNu(diff)), time_step, wcr)
     /\ data = [k \in DataIds |-> createData(model)]
     /\ alloc = AllocateAll(model, DataIds, <<>>)
     /\ last = [NoCall EXCEPT !.dt = time_step, !.diff = diff]

\* the caller uses a data record with the model only while checkData accepts it
Usable(k) == checkData(model, data[k]) = {"true"}

SetDt ==
  \E dt \in TimeSteps :
     LET res == set_dt(model, dt)
     IN  /\ model' = res.model
         /\ last' = [NoCall EXCEPT !.op = "set_dt", !.outcome = res.outcome, !.dt = dt]
         /\ UNCHANGED <<data, alloc>>

SetDifferential ==
  \E diff \in DiffModels :
     /\ model' = set_differential(model, diff)
     /\ last' = [NoCall EXCEPT !.op = "set_differential", !.diff = diff]
     /\ UNCHANGED <<data, alloc>>

CreateData ==
  \E k \in DOMAIN data :
     /\ alloc' = [alloc EXCEPT ![k] = AllocateData(model, Release(alloc, k))]
     /\ data' = Store(data, alloc', k, createData(model))
     /\ last' = [NoCall EXCEPT !.op = "createData", !.id = k]
     /\ UNCHANGED model

Calc ==
  \E k \in DOMAIN data, in \in Inputs :
     /\ Usable(k)
     /\ LET res == calc(model, data[k], in.x, in.p)
        IN  /\ data' = Store(data, alloc, k, res.data)
            /\ last' = [NoCall EXCEPT !.op = "calc", !.outcome = res.outcome,
                                      !.id = k, !.x = in.x, !.p = in.p]
     /\ UNCHANGED <<model, alloc>>

CalcDiff ==
  \E k \in DOMAIN data, in \in Inputs :
     /\ Usable(k)
     /\ LET res == calcDiff(model, data[k], in.x, in.p)
        IN  /\ data' = Store(data, alloc, k, res.data)
            /\ last' = [NoCall EXCEPT !.op = "calcDiff", !.outcome = res.outcome,
                                      !.id = k, !.x = in.x, !.p = in.p]
     /\ UNCHANGED <<model, alloc>>

QuasiStatic ==
  \E k \in DOMAIN data, u \in Us, in \in Inputs, s \in SolverArgs :
     /\ Usable(k)
     /\ LET res == quasiStatic(model, data[k], u, in.x, s.maxiter, s.tol)
        IN  /\ data' = Store(data, alloc, k, res.data)
            /\ last' = [NoCall EXCEPT !.op = "quasiStatic", !.outcome = res.outcome,
                                      !.id = k, !.x = in.x, !.p = u, !.u = res.u,
                                      !.maxiter = s.maxiter, !.tol = s.tol,
                                      !.calls = res.calls]
     /\ UNCHANGED <<model, alloc>>

CheckData ==
  \E a \in DOMAIN CheckArgs :
     \E o \in checkData(model, CheckArgs[a]) :
        /\ last' = [NoCall EXCEPT !.op = "checkData", !.outcome = o, !.arg = a]
        /\ UNCHANGED <<model, data, alloc>>

\* reconfiguration and data-record management
Next ==
  \/ SetDt
  \/ SetDifferential
  \/ CreateData
  \/ CheckData
  \/ QuasiStatic

Spec == Init /\ [][Next]_vars

\* evaluation of a model whose time step may be reconfigured
NextEval ==
  \/ SetDt
  \/ CreateData
  \/ Calc
  \/ CalcDiff
  \/ QuasiStatic

SpecEval == InitEval /\ [][NextEval]_vars

\* construction with and without residual tracking
InitResidual ==
  \E kind \in Kinds, diff \in EvalDiffs, ck \in ControlKinds,
     time_step \in EvalTimeSteps, wcr \in BOOLEAN :
     /\ model = Construct(kind, diff, ControlOf(ck, DiffNu(diff)), time_step, wcr)
     /\ data = [k \in DataIds |-> createData(model)]
     /\ alloc = AllocateAll(model, DataIds, <<>>)
     /\ last = [NoCall EXCEPT !.dt = time_step, !.diff = diff]

\* calc on models with and without residual tracking
NextResidual ==
  \/ CreateData
  \/ Calc

SpecResidual == InitResidual /\ [][NextResidual]_vars

\* a caller that holds two data records of one model
SharedDataIds == {"d1", "d2"}

\* construction of a model evaluated on two data records
InitShared ==
  \E kind \in Kinds, diff \in {"cross"}, ck \in {"lin"},
     time_step \in {Q(1, 10)}, wcr \in {TRUE} :
     /\ model = Construct(kind, diff, ControlOf(ck, DiffNu(diff)), time_step, wcr)
     /\ data = [k \in SharedDataIds |-> createData(model)]
     /\ alloc = AllocateAll(model, SharedDataIds, <<>>)
     /\ last = [NoCall EXCEPT !.dt = time_step, !.diff = diff]

\* calls on the two records in any order
NextShared ==
  \/ CreateData
  \/ Calc
  \/ CalcDiff
  \/ QuasiStatic

SpecShared == InitShared /\ [][NextShared]_vars

\* construction with a parametrization whose np differs from nu; after a
\* failed construction the caller has no model and no data record
InitParam ==
  \E kind \in Kinds, diff \in EvalDiffs, ck \in WideControlKinds,
     time_step \in EvalTimeSteps, wcr \in {TRUE} :
     \E res \in ConstructOutcomes(kind, diff, ControlOf(ck, DiffNu(diff)), time_step, wcr) :
        /\ model = res.model
        /\ data = [k \in DataIds |->
                     IF res.outcome = "ok" THEN createData(model) ELSE NullData]
        /\ alloc = AllocateAll(model, DataIds, <<>>)
        /\ last = [NoCall EXCEPT !.outcome = res.outcome, !.dt = time_step, !.diff = diff]

\* evaluation of a model built with such a parametrization
NextParam ==
  \/ Calc
  \/ CalcDiff
  \/ QuasiStatic

SpecParam == InitParam /\ [][NextParam]_vars

(***************************************************************************)
(* Properties.                                                             *)
(***************************************************************************)
\* the data record the last call was made on
D == data[last.id]

CalledOk(op) == last.op = op /\ last.outcome = "ok"

\* the differential model's acceleration and cost at (x, value(t, p))
Acc(x, t, p) == DiffXout(get_differential(model), x, value(model.control, t, p))

Cost(x, t, p) == DiffCost(get_differential(model), x, value(model.control, t, p))

\* the velocity part of a state vector
Vel(x) == Tail_(x, model.state.nv)

\* C1: after Euler calc with integration enabled, dx = [v*dt + a*dt^2, a*dt],
\* xnext = integrate(x, dx) and cost = dt*l, with a and l the differential
\* model's acceleration and cost at (x, value(0, p)); the double integrator
\* with dt = 0.1, x = [0,0], u = [1] gives xnext = [0.01, 0.1], cost = 0.05
C1_EulerCalc ==
  (CalledOk("calc") /\ model.kind = "Euler" /\ model.enable_integration) =>
    LET x  == last.x
        dt == get_dt(model)
        a  == Acc(x, Zero, last.p)
        l  == Cost(x, Zero, last.p)
        dx == VAdd(VScale(dt, Vel(x)), VScale(RMul(dt, dt), a)) \o VScale(dt, a)
    IN  /\ D.dx = dx
        /\ D.xnext = integrate(x, dx)
        /\ D.cost = RMul(dt, l)
        /\ (get_differential(model) = "dint" /\ dt = Q(1, 10)
              /\ x = <<Zero, Zero>> /\ value(model.control, Zero, last.p) = <<One>>)
             => (D.xnext = <<Q(1, 100), Q(1, 10)>> /\ D.cost = Q(1, 20))

C1_Witness ==
  /\ CalledOk("calc") /\ model.kind = "Euler" /\ model.enable_integration
  /\ get_differential(model) = "dint" /\ get_dt(model) = Q(1, 10)
  /\ last.x = <<Zero, Zero>> /\ last.p = <<One>>
  /\ D.xnext = <<Q(1, 100), Q(1, 10)>>

\* C2: after RK2 calc with integration enabled, k0 = [v, a0] at (x, value(0, p)),
\* y1 = integrate(x, 0.5*dt*k0), k1 = [v(y1), a1] at (y1, value(0.5, p)),
\* xnext = integrate(x, dt*k1) and cost = dt*l1 (the stage-1 cost alone); the
\* double integrator with dt = 0.1, x = [0,0], u = [1] gives xnext = [0.005, 0.1]
C2_RK2Calc ==
  (CalledOk("calc") /\ model.kind = "RK2" /\ model.enable_integration) =>
    LET x  == last.x
        dt == get_dt(model)
        k0 == Vel(x) \o Acc(x, Zero, last.p)
        y1 == integrate(x, VScale(RMul(Half, dt), k0))
        k1 == Vel(y1) \o Acc(y1, Half, last.p)
        l1 == Cost(y1, Half, last.p)
    IN  /\ D.ki = <<k0, k1>>
        /\ D.y[2] = y1
        /\ D.xnext = integrate(x, VScale(dt, k1))
        /\ D.cost = RMul(dt, l1)
        /\ (get_differential(model) = "dint" /\ model.control.kind = "zero"
              /\ dt = Q(1, 10) /\ x = <<Zero, Zero>> /\ last.p = <<One>>)
             => D.xnext = <<Q(1, 200), Q(1, 10)>>

C2_Witness ==
  /\ CalledOk("calc") /\ model.kind = "RK2" /\ model.enable_integration
  /\ get_differential(model) = "cross" /\ model.control.kind = "lin"
  /\ get_dt(model) = Q(1, 10) /\ last.x = CaseX(1)
  /\ D.cost # RMul(get_dt(model), Cost(last.x, Zero, last.p))

\* C3: whenever the time step is 0, calc yields xnext = x and cost equal to
\* the differential model's stage-0 cost, unscaled
C3_ZeroStepCalc ==
  (CalledOk("calc") /\ get_dt(model) = Zero) =>
    /\ D.xnext = last.x
    /\ D.cost = Cost(last.x, Zero, last.p)

\* C4: whenever the time step is 0, calcDiff yields Fx = Jintegrate(x, 0),
\* Fu = 0 and Lx, Lu, Lxx, Lxu, Luu copied from the stage-0 differential record
C4_ZeroStepCalcDiff ==
  (CalledOk("calcDiff") /\ get_dt(model) = Zero) =>
    /\ D.Fx = JintegrateBoth(model.state, last.x, VZero(model.state.ndx))
    /\ D.Fu = MZero(model.state.ndx, model.nu)
    /\ D.Lx = D.differential[1].Lx
    /\ D.Lu = D.differential[1].Lu
    /\ D.Lxx = D.differential[1].Lxx
    /\ D.Lxu = D.differential[1].Lxu
    /\ D.Luu = D.differential[1].Luu

\* C5: set_dt(dt) with dt < 0 fails with an invalid-argument error and leaves
\* the model (time_step, time_step^2, enable_integration) as it was
C5_SetDtNegative ==
  [][(last'.op = "set_dt" /\ RLess(last'.dt, Zero)) =>
       (last'.outcome = "invalid_argument" /\ model' = model
          /\ get_dt(model') = get_dt(model))]_vars

C5_Witness ==
  /\ last.op = "set_dt" /\ RLess(last.dt, Zero) /\ last.outcome = "invalid_argument"
  /\ get_dt(model) = Q(1, 10) /\ model.time_step2 = Q(1, 100)

\* C6: a model constructed with a negative time step has time_step = 1e-3,
\* time_step^2 = 1e-6 and integration enabled
C6_NegativeConstruction ==
  (last.op = "construct" /\ RLess(last.dt, Zero)) =>
    /\ model.time_step = Q(1, 1000)
    /\ model.time_step2 = Q(1, 1000000)
    /\ model.enable_integration

C6_Witness ==
  /\ last.op = "construct" /\ RLess(last.dt, Zero)
  /\ model.kind = "RK2" /\ get_dt(model) = Q(1, 1000)

\* C7: after construction and every reconfiguration,
\* enable_integration = (time_step # 0)
C7_EnableDerived == model.enable_integration = (model.time_step # Zero)

\* C8: calc, calcDiff and quasiStatic given an x with |x| # nx or a parameter
\* vector of length # nu fail with an invalid-argument error and leave the
\* data record, and quasiStatic's output vector, as they were
C8_FailedValidation ==
  [][(last'.op \in {"calc", "calcDiff", "quasiStatic"}
        /\ (Len(last'.x) # model.state.nx \/ Len(last'.p) # model.nu)) =>
       (/\ last'.outcome = "invalid_argument"
        /\ data' = data
        /\ last'.op = "quasiStatic" => last'.u = last'.p)]_vars

C8_Witness ==
  /\ last.op \in {"calc", "calcDiff"} /\ last.outcome = "invalid_argument"
  /\ Len(last.p) # model.nu
  /\ D # createData(model)

\* the outputs of calcDiff
Outputs(d) == <<d.Fx, d.Fu, d.Lx, d.Lu, d.Lxx, d.Lxu, d.Luu>>

\* calcDiff(data, x, p) on a fresh record on which calc(data, x, p) was made
AfterCalc(m, x, p) ==
  Outputs(calcDiff(m, calc(m, createData(m), x, p).data, x, p).data)

\* C9 as stated: the outputs of calcDiff(data, x, p) depend only on the model
\* and (x, p), whatever the data record held before
C9_Stateless == CalledOk("calcDiff") => Outputs(D) = AfterCalc(model, last.x, last.p)

\* C9 amended: calcDiff(data, x, p) made right after calc(data, x, p) on the
\* same record gives outputs that depend only on the model and (x, p),
\* whatever the record held before that calc
C9_AfterCalc ==
  [][(CalledOk("calc") /\ last'.op = "calcDiff" /\ last'.outcome = "ok"
        /\ last'.id = last.id /\ last'.x = last.x /\ last'.p = last.p) =>
       Outputs(data'[last.id]) = AfterCalc(model, last.x, last.p)]_vars

\* calcDiff made right after a calc with the same arguments, on a record that
\* held the results of other calls before
C9_Witness ==
  /\ CalledOk("calcDiff") /\ model.kind = "RK2" /\ model.enable_integration
  /\ get_differential(model) = "cross"
  /\ D.y[2] = integrate(last.x, D.dx_rk2[2])
  /\ Outputs(D) = AfterCalc(model, last.x, last.p)
  /\ Outputs(D) # Outputs(calcDiff(model, createData(model), last.x, last.p).data)

\* a record is the model's own when it has the integrator's data type and
\* every stage sub-record was created by the model's differential model
OwnData(m, arg) ==
  /\ arg.type = m.kind
  /\ \A i \in DOMAIN arg.differential : arg.differential[i].owner = get_differential(m)

\* C10: checkData returns true for a record the model's createData() makes and
\* false, without failing, for a record of another data type or with a stage
\* sub-record created by a different differential model
C10_CheckData ==
  last.op = "checkData" =>
    LET arg == CheckArgs[last.arg]
    IN  /\ (arg # NullData /\ OwnData(model, arg)) => last.outcome = "true"
        /\ (arg = NullData \/ ~OwnData(model, arg)) => last.outcome = "false"

\* C11: quasiStatic on valid inputs calls the differential model's quasiStatic
\* exactly once, on the stage-0 record with the same x, maxiter and tol, writes
\* u = value_inv(0, uc) for the uc that call produced, so value(0, u) = uc
C11_QuasiStatic ==
  CalledOk("quasiStatic") =>
    LET uc == DiffQuasiStatic(get_differential(model), last.x)
    IN  /\ last.calls = <<DiffQuasiStaticCall(1, last.x, last.maxiter, last.tol)>>
        /\ last.u = value_inv(model.control, Zero, uc)
        /\ value(model.control, Zero, last.u) = uc

C11_Witness ==
  /\ CalledOk("quasiStatic") /\ model.control.kind = "lin"
  /\ get_differential(model) = "cross" /\ last.x = CaseX(1)
  /\ last.maxiter = 1 /\ last.u = <<Half>> /\ last.p # last.u

\* C12: in every reachable state time_step >= 0 and time_step^2 is
\* time_step * time_step; get_dt() is the time step given at construction
\* (1e-3 if it was negative) until a set_dt succeeds, after which it is the
\* argument of the last successful set_dt (failed set_dt calls and
\* set_differential leave it alone)
C12_TimeStep ==
  /\ [](/\ ~RLess(model.time_step, Zero)
        /\ model.time_step2 = RMul(model.time_step, model.time_step)
        /\ last.op = "construct" =>
              get_dt(model) = IF RLess(last.dt, Zero) THEN Q(1, 1000) ELSE last.dt)
  /\ [][get_dt(model') = IF last'.op = "set_dt" /\ last'.outcome = "ok"
                         THEN last'.dt ELSE get_dt(model)]_vars

C12_Witness ==
  /\ last.op = "set_dt" /\ last.outcome = "ok" /\ last.dt = Q(1, 10)
  /\ model.kind = "RK2" /\ get_dt(model) = Q(1, 10) /\ model.time_step2 = Q(1, 100)
  /\ ~model.enable_integration

\* the bounds of the differential model held, pushed through convert_bounds
ConvertedBounds(m) ==
  convert_bounds(m.control, DiffUlb(get_differential(m)), DiffUub(get_differential(m)))

\* C13: after construction and after every set_differential the model's bounds
\* (u_lb, u_ub) are convert_bounds of the control bounds of the differential
\* model that get_differential() returns; set_dt never changes them
C13_Bounds ==
  /\ [](model.u_lb = ConvertedBounds(model).lb /\ model.u_ub = ConvertedBounds(model).ub)
  /\ [][last'.op = "set_dt" => (model'.u_lb = model.u_lb /\ model'.u_ub = model.u_ub)]_vars

C13_Witness ==
  /\ last.op = "set_differential" /\ get_differential(model) = "cross"
  /\ model.control.kind = "lin"
  /\ model.u_lb = <<Q(-2, 3)>> /\ model.u_ub = <<Q(2, 3)>>
  /\ model.u_ub # DiffUub("cross")

\* C14: set_differential(m) makes get_differential() = m and takes the state
\* manifold and the residual dimension from m; when m's control dimension
\* differs from the parametrization's nu the parametrization is resized to it,
\* the model's nu becomes the parametrization's nu and the neutral control the
\* zero vector of that length; otherwise the parametrization, nu and the
\* neutral control are unchanged; time_step and with_cost_residual are unchanged
C14_SetDifferential ==
  [][last'.op = "set_differential" =>
       /\ get_differential(model') = last'.diff
       /\ model'.state = DiffState(last'.diff)
       /\ model'.nr = DiffNr(last'.diff)
       /\ IF DiffNu(last'.diff) # model.control.nu
          THEN /\ model'.control.nu = DiffNu(last'.diff)
               /\ model'.nu = model'.control.nu
               /\ model'.unone = VZero(model'.nu)
          ELSE /\ model'.control = model.control
               /\ model'.nu = model.nu
               /\ model'.unone = model.unone
       /\ get_dt(model') = get_dt(model)
       /\ model'.time_step2 = model.time_step2
       /\ model'.with_cost_residual = model.with_cost_residual]_vars

C14_Witness ==
  /\ last.op = "set_differential" /\ last.diff = "dint2"
  /\ get_differential(model) = "dint2" /\ model.kind = "Euler"
  /\ model.nu = 2 /\ model.control.nu = 2 /\ model.unone = <<Zero, Zero>>
  /\ model.nr = 2 /\ ~model.with_cost_residual /\ get_dt(model) = Q(1, 10)
  /\ Len(data["d1"].Lu) = 1

\* C15: calc with residual tracking enabled leaves in the data record the
\* stage-0 differential record's residual, the residual at (x, value(0, p)),
\* unscaled, in the enabled and in the disabled branch; with residual tracking
\* disabled calc leaves the data record's r as it was
C15_Residual ==
  [][(last'.op = "calc" /\ last'.outcome = "ok") =>
       LET k == last'.id
       IN  IF model.with_cost_residual
           THEN /\ data'[k].r = data'[k].differential[1].r
                /\ data'[k].r = DiffResidual(get_differential(model), last'.x,
                                             value(model.control, Zero, last'.p))
           ELSE data'[k].r = data[k].r]_vars

\* a residual copied by RK2 calc with integration enabled, where the stage-1
\* residual is another vector and dt is not 1
C15_Witness ==
  /\ CalledOk("calc") /\ model.kind = "RK2" /\ model.enable_integration
  /\ model.with_cost_residual /\ get_differential(model) = "cross"
  /\ model.control.kind = "lin" /\ last.x = CaseX(1)
  /\ D.r = <<One, Int2Q(4)>>
  /\ D.r # D.differential[2].r

\* the derivatives of the differential model at (x, u)
DiffDerivatives(m, x, u) ==
  DiffCalcDiff(get_differential(m), DiffCreateData(get_differential(m)), x, u)

\* C16: after Euler calcDiff with integration enabled, with J = dValue(0, p) and
\* a_x, a_u, l_* the differential model's derivatives at (x, value(0, p)):
\* Fx is the transport of [dt^2*a_x + dt on the top-right nv x nv diagonal;
\* dt*a_x] plus the first Jintegrate term, Fu the transport of
\* [dt^2*(a_u*J); dt*(a_u*J)], Lx = dt*l_x, Lu = dt*(J^T*l_u), Lxx = dt*l_xx,
\* Lxu = dt*(l_xu*J) and Luu = dt*(J^T*l_uu*J)
C16_EulerCalcDiff ==
  (CalledOk("calcDiff") /\ model.kind = "Euler" /\ model.enable_integration) =>
    LET x   == last.x
        p   == last.p
        st  == model.state
        np  == model.control.np
        dt  == get_dt(model)
        dt2 == RMul(dt, dt)
        J   == dValue(model.control, Zero, p)
        Jt  == MTranspose(J, np)
        dd  == DiffDerivatives(model, x, value(model.control, Zero, p))
        auJ == MMul(dd.Fu, J, np)
        FxPre == MAdd(MScale(dt2, dd.Fx) \o MScale(dt, dd.Fx),
                      MScale(dt, TopRightIdentity(st.ndx, st.nv)))
        FuPre == MScale(dt2, auJ) \o MScale(dt, auJ)
    IN  /\ D.Fx  = MAdd(JintegrateTransport(st, x, D.dx, FxPre), JintegrateFirst(st, x, D.dx))
        /\ D.Fu  = JintegrateTransport(st, x, D.dx, FuPre)
        /\ D.Lx  = VScale(dt, dd.Lx)
        /\ D.Lu  = VScale(dt, MTVec(J, dd.Lu, np))
        /\ D.Lxx = MScale(dt, dd.Lxx)
        /\ D.Lxu = MScale(dt, MMul(dd.Lxu, J, np))
        /\ D.Luu = MScale(dt, MMul(Jt, MMul(dd.Luu, J, np), np))

C16_Witness ==
  /\ CalledOk("calcDiff") /\ model.kind = "Euler" /\ model.enable_integration
  /\ get_differential(model) = "cross" /\ get_dt(model) = Q(1, 10)
  /\ model.control.kind = "lin" /\ last.x = CaseX(1)
  /\ D.Fx = <<(<<Q(99, 100), Q(1, 10)>>), (<<Q(-1, 10), One>>)>>
  /\ D.Fu = <<(<<Q(1, 50)>>), (<<Q(1, 5)>>)>>
  /\ D.Lu = <<One>>

\* dk/dy of a stage, k = [v, a]: the velocity rows over the rows of a_y
StageKy(m, dd) == SubSeq(TopRightIdentity(m.state.ndx, m.state.nv), 1, m.state.nv) \o dd.Fx

\* dk/du of a stage: zero rows over the rows of a_u
StageKu(m, dd) == MZero(m.state.nv, DiffNu(get_differential(m))) \o dd.Fu

\* C17: RK2 calcDiff with integration enabled, made after calc(data, x, p):
\* dy1/dx and dy1/dp are 0.5*dt times dk0/dx and dk0/dp transported at
\* (x, 0.5*dt*k0), dy1/dx with the first Jintegrate term added; the stage-1
\* partials are composed by the chain rule through y1 plus the direct partial
\* through the Jacobian at t = 1/2; Fx, Fu, Lx, Lu, Lxx, Lxu, Luu are dt times
\* the stage-1 composed quantities, Fx and Fu transported at (x, dt*k1); no
\* stage-0 cost derivative enters
C17_RK2CalcDiff ==
  [][(CalledOk("calc") /\ last'.op = "calcDiff" /\ last'.outcome = "ok"
        /\ last'.id = last.id /\ last'.x = last.x /\ last'.p = last.p
        /\ model.kind = "RK2" /\ model.enable_integration) =>
       LET x   == last.x
           p   == last.p
           c   == model.control
           st  == model.state
           np  == c.np
           ndx == st.ndx
           dt  == get_dt(model)
           h   == RMul(Half, dt)
           J0  == dValue(c, Zero, p)
           J1  == dValue(c, Half, p)
           dd0 == DiffDerivatives(model, x, value(c, Zero, p))
           k0  == Vel(x) \o Acc(x, Zero, p)
           dx1 == VScale(h, k0)
           y1  == integrate(x, dx1)
           dd1 == DiffDerivatives(model, y1, value(c, Half, p))
           k1  == Tail_(y1, st.nv) \o DiffXout(get_differential(model), y1, value(c, Half, p))
           dxf == VScale(dt, k1)
           dk0_dx == StageKy(model, dd0)
           dk0_dp == MMul(StageKu(model, dd0), J0, np)
           dy1_dx == MAdd(JintegrateTransport(st, x, dx1, MScale(h, dk0_dx)),
                          JintegrateFirst(st, x, dx1))
           dy1_dp == JintegrateTransport(st, x, dx1, MScale(h, dk0_dp))
           dk1_dx == MMul(StageKy(model, dd1), dy1_dx, ndx)
           dk1_dp == MAdd(MMul(StageKy(model, dd1), dy1_dp, np),
                          MMul(StageKu(model, dd1), J1, np))
           yxT    == MTranspose(dy1_dx, ndx)
           ypT    == MTranspose(dy1_dp, np)
           lyuJ   == MMul(dd1.Lxu, J1, np)
           d      == data'[last.id]
       IN  /\ d.dyi_dx[2] = dy1_dx
           /\ d.dyi_du[2] = dy1_dp
           /\ d.dki_dx[2] = dk1_dx
           /\ d.dki_du[2] = dk1_dp
           /\ d.Fx  = MAdd(JintegrateTransport(st, x, dxf, MScale(dt, dk1_dx)),
                           JintegrateFirst(st, x, dxf))
           /\ d.Fu  = JintegrateTransport(st, x, dxf, MScale(dt, dk1_dp))
           /\ d.Lx  = VScale(dt, MTVec(dy1_dx, dd1.Lx, ndx))
           /\ d.Lu  = VScale(dt, VAdd(MTVec(dy1_dp, dd1.Lx, np), MTVec(J1, dd1.Lu, np)))
           /\ d.Lxx = MScale(dt, MMul(yxT, MMul(dd1.Lxx, dy1_dx, ndx), ndx))
           /\ d.Lxu = MScale(dt, MAdd(MMul(yxT, MMul(dd1.Lxx, dy1_dp, np), np),
                                      MMul(yxT, lyuJ, np)))
           /\ d.Luu = MScale(dt,
                  MAdd(MAdd(MMul(ypT, MMul(dd1.Lxx, dy1_dp, np), np),
                            MMul(MTranspose(J1, np), MMul(dd1.Luu, J1, np), np)),
                       MAdd(MMul(ypT, lyuJ, np),
                            MMul(MTranspose(lyuJ, np), dy1_dp, np))))]_vars

\* RK2 calcDiff on a record that holds the calc made at the same (x, p), where
\* the stage-0 and stage-1 cost gradients differ
C17_Witness ==
  /\ CalledOk("calcDiff") /\ model.kind = "RK2" /\ model.enable_integration
  /\ get_differential(model) = "cross" /\ model.control.kind = "lin"
  /\ get_dt(model) = Q(1, 10) /\ last.x = CaseX(1)
  /\ D.ki[1] = Vel(last.x) \o Acc(last.x, Zero, last.p)
  /\ D.y[2] = integrate(last.x, VScale(Q(1, 20), D.ki[1]))
  /\ D.dli_dx[2] # D.dli_dx[1]
  /\ D.Lx = VScale(get_dt(model), D.dli_dx[2])
  /\ D.Lxx # MZero(2, 2) /\ D.Lxu # MZero(2, 1)

\* addresses of the stage sub-records of record k
Stages(al, k) == {al[k].stages[i] : i \in DOMAIN al[k].stages}

\* what a call on the record d made alone leaves in it
Alone(m, d, call) ==
  CASE call.op = "calc"        -> calc(m, d, call.x, call.p).data
    [] call.op = "calcDiff"    -> calcDiff(m, d, call.x, call.p).data
    [] call.op = "quasiStatic" -> quasiStatic(m, d, call.p, call.x, call.maxiter, call.tol).data

\* C18: data records are never shared.  No two records have the same address
\* and no stage sub-record belongs to two records or twice to one; a record
\* has 1 (Euler) or 2 (RK2) sub-records; createData returns a record and
\* sub-records at addresses no other record uses, and touches no other record; calc,
\* calcDiff and quasiStatic on one record leave the model and every other
\* record as they were and leave in their own record what the call made
\* alone leaves, so the calls on two records interleave without effect on
\* each other
C18_NeverShared ==
  /\ [](\A j \in DOMAIN alloc :
         /\ Len(alloc[j].stages) = (IF model.kind = "Euler" THEN 1 ELSE 2)
         /\ Len(data[j].differential) = Len(alloc[j].stages)
         /\ Cardinality(Stages(alloc, j)) = Len(alloc[j].stages)
         /\ \A k \in DOMAIN alloc \ {j} :
               /\ alloc[j].self # alloc[k].self
               /\ Stages(alloc, j) \cap Stages(alloc, k) = {})
  /\ [][LET k == last'.id
        IN  /\ last'.op = "createData" =>
                 /\ alloc'[k].self \notin LiveRecords(Release(alloc, k))
                 /\ Stages(alloc', k) \cap LiveStages(Release(alloc, k)) = {}
                 /\ data'[k] = createData(model)
                 /\ model' = model
                 /\ \A j \in DOMAIN data \ {k} : data'[j] = data[j] /\ alloc'[j] = alloc[j]
            /\ last'.op \in {"calc", "calcDiff", "quasiStatic"} =>
                 /\ model' = model
                 /\ alloc' = alloc
                 /\ data'[k] = Alone(model, data[k], last')
                 /\ \A j \in DOMAIN data \ {k} : data'[j] = data[j]]_vars

\* RK2: calcDiff has just run on the second record while the first record
\* holds the calc made on it, as if that calc had been made alone
C18_Witness ==
  /\ DOMAIN data = SharedDataIds /\ model.kind = "RK2"
  /\ CalledOk("calcDiff") /\ last.id = "d2" /\ last.x = CaseX(0)
  /\ data["d2"].Fx # MZero(2, 2)
  /\ data["d1"] = calc(model, createData(model), CaseX(1), CaseP(1)).data
  /\ data["d1"].differential # data["d2"].differential
  /\ Stages(alloc, "d1") \cap Stages(alloc, "d2") = {}

\* C19: for a model built with a parametrization of dimensions (nu, np), the
\* model's input dimension and the lengths of its bound vectors equal np; calc
\* and calcDiff reject p exactly when x or p has a wrong length, the right
\* length of p being np; quasiStatic succeeds only with an output of length
\* np; and the control vector handed to the differential model has length nu
C19_ParameterDimension ==
  LET c == model.control
  IN  /\ model.nu = c.np
      /\ Len(model.u_lb) = c.np
      /\ Len(model.u_ub) = c.np
      /\ last.op \in {"calc", "calcDiff"} =>
            (last.outcome = "invalid_argument"
               <=> (Len(last.x) # model.state.nx \/ Len(last.p) # c.np))
      /\ CalledOk("quasiStatic") => Len(last.u) = c.np
      /\ (CalledOk("calc") \/ CalledOk("calcDiff")) =>
            \A i \in 1..Len(D.differential) :
               Len(IF model.kind = "Euler" THEN D.u_diff ELSE D.u_diff[i]) = c.nu

====
